---- MODULE Spec2Model ----
(***************************************************************************)
(* A model of rootpy's histogram wrapper (rootpy/plotting/hist.py):        *)
(* bin indexing (__getitem__, __setitem__), merge_bins, rebinned and the   *)
(* strict branch of quantiles.                                             *)
(*                                                                         *)
(* A histogram is the record                                               *)
(*   dim      1, 2 or 3                                                    *)
(*   nbins    <<nx, ny, nz>>, 1 for an axis the histogram does not have    *)
(*            (what GetNbinsY / GetNbinsZ answer for it)                   *)
(*   edges    <<ex, ey, ez>>, the nbins+1 bin edges of each axis           *)
(*   content  global bin index -> bin content                              *)
(*   sumw2    global bin index -> sum of squared weights                   *)
(*   entries  the number of entries                                        *)
(* Bin edges are even integers so that every bin centre is an integer.     *)
(***************************************************************************)
EXTENDS Integers, Sequences, FiniteSets, TLC

VARIABLES hist, call

vars == <<hist, call>>

(***************************************************************************)
(* Bounds of the model.                                                    *)
(***************************************************************************)
MaxBins == 3

MaxBins2D == 2

MaxBinsSlice == 2

MaxVal == 2

MaxLen == 3

MaxQuantiles == 2

(***************************************************************************)
(* Small helpers.                                                          *)
(***************************************************************************)
RECURSIVE Pow2(_)
Pow2(k) == IF k = 0 THEN 1 ELSE 2 * Pow2(k - 1)

RECURSIVE SumSet(_, _)
\* the sum of f over the set S
SumSet(f, S) ==
    IF S = {} THEN 0
    ELSE LET x == CHOOSE x \in S : TRUE IN f[x] + SumSet(f, S \ {x})

(***************************************************************************)
(* The wrapped library: the cells of a histogram and its axes.             *)
(***************************************************************************)
\* nbins(axis): GetNbinsX / GetNbinsY / GetNbinsZ
nbins(h, axis) == h.nbins[axis + 1]

\* GetSize(): the number of cells, overflow cells included
GetSize(h) ==
    IF h.dim = 1 THEN h.nbins[1] + 2
    ELSE IF h.dim = 2 THEN (h.nbins[1] + 2) * (h.nbins[2] + 2)
    ELSE (h.nbins[1] + 2) * (h.nbins[2] + 2) * (h.nbins[3] + 2)

Clamp(i, n) == IF i < 0 THEN 0 ELSE IF i > n + 1 THEN n + 1 ELSE i

\* GetBin(ix, iy, iz): the global index; coordinates are clamped to the axis
\* and the coordinates of missing axes are ignored
GetBin(h, ix, iy, iz) ==
    LET x == Clamp(ix, h.nbins[1])
        y == Clamp(iy, h.nbins[2])
        z == Clamp(iz, h.nbins[3])
    IN  IF h.dim = 1 THEN x
        ELSE IF h.dim = 2 THEN x + (h.nbins[1] + 2) * y
        ELSE x + (h.nbins[1] + 2) * (y + (h.nbins[2] + 2) * z)

\* xyz(i): GetBinXYZ, the per-axis coordinates of global index i
xyz(h, i) ==
    LET xl == h.nbins[1] + 2
        yl == h.nbins[2] + 2
    IN  IF h.dim = 1 THEN <<i % xl, 0, 0>>
        ELSE IF h.dim = 2 THEN <<i % xl, (i \div xl) % yl, 0>>
        ELSE <<i % xl, (i \div xl) % yl, i \div (xl * yl)>>

\* axis.GetBinLowEdge(i) for a real bin or the overflow bin
GetBinLowEdge(h, axis, i) == h.edges[axis + 1][i]

\* axis.GetBinCenter(i); the overflow bins mirror the width of the bin next
\* to them
GetBinCenter(h, axis, i) ==
    LET e == h.edges[axis + 1]
        n == h.nbins[axis + 1]
    IN  IF i < 1 THEN e[1] + i * (e[2] - e[1]) - ((e[2] - e[1]) \div 2)
        ELSE IF i > n
             THEN e[n + 1] + (i - n) * (e[n + 1] - e[n])
                  - ((e[n + 1] - e[n]) \div 2)
        ELSE (e[i] + e[i + 1]) \div 2

\* axis.FindBin(x): 0 below the axis, nbins+1 at or above its upper edge
AxisFindBin(h, axis, x) ==
    LET e == h.edges[axis + 1]
        n == h.nbins[axis + 1]
    IN  IF x < e[1] THEN 0
        ELSE IF x >= e[n + 1] THEN n + 1
        ELSE CHOOSE i \in 1..n : e[i] <= x /\ x < e[i + 1]

\* _edges(axis): the low edges of the real bins, then the upper edge of the
\* last one
Edges(h, axis) == h.edges[axis + 1]

(***************************************************************************)
(* Construction.                                                           *)
(***************************************************************************)
UniformEdges(n) == [k \in 1..(n + 1) |-> 2 * (k - 1)]

\* Hist / Hist2D / Hist3D(edges...): an empty histogram that stores squared
\* weights
NewHist(dim, edges) ==
    LET nb == [a \in 1..3 |-> IF a <= dim THEN Len(edges[a]) - 1 ELSE 1]
        h0 == [dim |-> dim, nbins |-> nb, edges |-> edges]
    IN  [dim |-> dim, nbins |-> nb, edges |-> edges,
         content |-> [i \in 0..(GetSize(h0) - 1) |-> 0],
         sumw2 |-> [i \in 0..(GetSize(h0) - 1) |-> 0],
         entries |-> 0]

(***************************************************************************)
(* Python's slices and ranges.  An optional value is a sequence of length   *)
(* 0 (None) or 1.                                                          *)
(***************************************************************************)
None == <<>>

Some(v) == <<v>>

\* slice(start, stop, step).indices(length), for step /= 0
SliceIndices(start, stop, step, length) ==
    LET st == IF step = None THEN 1 ELSE step[1]
        Adj(v, lowdef, highdef) ==
            LET w == IF v < 0 THEN v + length ELSE v
            IN  IF w < 0 THEN lowdef
                ELSE IF w >= length THEN highdef
                ELSE w
        lo == IF st < 0 THEN 0 - 1 ELSE 0
        hi == IF st < 0 THEN length - 1 ELSE length
        a  == IF start = None THEN (IF st < 0 THEN length - 1 ELSE 0)
              ELSE Adj(start[1], lo, hi)
        b  == IF stop = None THEN (IF st < 0 THEN 0 - 1 ELSE length)
              ELSE Adj(stop[1], lo, hi)
    IN  <<a, b, st>>

\* len(range(a, b, st))
RangeLen(a, b, st) ==
    IF st > 0 THEN (IF a < b THEN ((b - a - 1) \div st) + 1 ELSE 0)
    ELSE (IF a > b THEN ((a - b - 1) \div (0 - st)) + 1 ELSE 0)

\* range(a, b, st) as a sequence
Range(a, b, st) == [k \in 1..RangeLen(a, b, st) |-> a + (k - 1) * st]

\* the set of elements of a sequence
Elems(s) == {s[k] : k \in 1..Len(s)}

(***************************************************************************)
(* new_binning_template: an empty histogram with the binning replaced      *)
(* along one axis.                                                         *)
(***************************************************************************)
new_binning_template(h, binning, axis) ==
    NewHist(h.dim, [a \in 1..3 |-> IF a = axis + 1 THEN binning
                                   ELSE h.edges[a]])

(***************************************************************************)
(* get_sum_w2 / set_sum_w2: the flat index of a cell and the range         *)
(* assertions on its coordinates.                                          *)
(***************************************************************************)
SumW2InRange(h, x, y, z) ==
    /\ x >= 0 /\ x < h.nbins[1] + 2
    /\ y >= 0 /\ y < h.nbins[2] + 2
    /\ z >= 0 /\ z < h.nbins[3] + 2

\* (a variant that strides the rows by the length of the y axis)
SumW2IndexRowsByY(h, x, y, z) ==
    LET xl == h.nbins[1] + 2
        yl == h.nbins[2] + 2
        zz == IF h.dim < 3 THEN 0 ELSE z
        yy == IF h.dim < 2 THEN 0 ELSE y
    IN  xl * yl * zz + yl * yy + x

SumW2Index(h, x, y, z) ==
    LET xl == h.nbins[1] + 2
        yl == h.nbins[2] + 2
        zz == IF h.dim < 3 THEN 0 ELSE z
        yy == IF h.dim < 2 THEN 0 ELSE y
    IN  xl * yl * zz + xl * yy + x

(***************************************************************************)
(* merge_bins.                                                             *)
(***************************************************************************)
Raise(kind, msg) == [raised |-> kind, msg |-> msg]

\* The checks on one range (a sequence of integers): the message of the
\* ValueError it raises, "" when it passes
WindowErrorNoEqualCheck(window) ==
    IF Len(window) # 2 THEN "bin range tuples must contain two elements"
    ELSE IF window[1] < 0 /\ window[2] >= 0 THEN "invalid bin range"
    ELSE ""

WindowError(window) ==
    IF Len(window) # 2 THEN "bin range tuples must contain two elements"
    ELSE IF window[1] = window[2]
    THEN "bin indices must not be equal in a merging window"
    ELSE IF window[1] < 0 /\ window[2] >= 0 THEN "invalid bin range"
    ELSE ""

\* The bin indices of a range that passed the checks: r is made exclusive
\* and the slice (l, r) is resolved against the axis
WindowBins(l, r, axis_bins) ==
    LET r1 == IF r = 0 - 1 THEN axis_bins ELSE r + 1
        ind == SliceIndices(Some(l), Some(r1), None, axis_bins)
    IN  Range(ind[1], ind[2], ind[3])

\* The loop that collects the windows: the first malformed range raises,
\* a range without bins is skipped.
RECURSIVE CollectWindows(_, _, _, _)
CollectWindows(bin_ranges, k, axis_bins, windows) ==
    IF k > Len(bin_ranges) THEN [err |-> "", windows |-> windows]
    ELSE IF WindowError(bin_ranges[k]) # ""
    THEN [err |-> WindowError(bin_ranges[k]), windows |-> windows]
    ELSE LET bin_idx == WindowBins(bin_ranges[k][1], bin_ranges[k][2],
                                   axis_bins)
         IN  CollectWindows(bin_ranges, k + 1, axis_bins,
                            IF bin_idx # <<>> THEN Append(windows, bin_idx)
                            ELSE windows)

\* reduce(operator.add, windows)
RECURSIVE Concat(_)
Concat(ws) == IF ws = <<>> THEN <<>> ELSE Head(ws) \o Concat(Tail(ws))

\* (a variant that compares only where the windows start)
WindowsOverlapFirstOnly(windows) ==
    Len(windows) # Cardinality({windows[k][1] : k \in 1..Len(windows)})

\* len(full_list) != len(set(full_list))
WindowsOverlap(windows) ==
    LET full_list == Concat(windows)
    IN  Len(full_list) # Cardinality(Elems(full_list))

\* windows.sort(): the windows are non-empty and pairwise disjoint here, so
\* the order of the lists is the order of their first elements
RECURSIVE SortWindows(_)
SortWindows(ws) ==
    IF ws = <<>> THEN <<>>
    ELSE LET m == CHOOSE k \in 1..Len(ws) :
                      \A j \in 1..Len(ws) : ws[k][1] <= ws[j][1]
             rest == [j \in 1..(Len(ws) - 1) |->
                          IF j < m THEN ws[j] ELSE ws[j + 1]]
         IN  <<ws[m]>> \o SortWindows(rest)

\* (a variant that leaves the underflow bin where it is)
NewIdxKeepUnderflow(window, offset) == window[1] - offset

\* new_idx = window[0] - offset or 1
NewIdx(window, offset) ==
    IF window[1] - offset = 0 THEN 1 ELSE window[1] - offset

\* The loop over the sorted windows that builds mapping, left_idx and offset.
RECURSIVE BuildMapping(_, _, _, _, _)
BuildMapping(windows, k, mapping, left_idx, offset) ==
    IF k > Len(windows)
    THEN [mapping |-> mapping, left_idx |-> left_idx, offset |-> offset]
    ELSE LET window == windows[k]
             new_idx == NewIdx(window, offset)
             left == IF window[1] = 0 THEN 1 ELSE window[1]
             mapping1 == [idx \in (DOMAIN mapping) \cup Elems(window) |->
                             IF idx \in Elems(window) THEN new_idx
                             ELSE mapping[idx]]
             offset1 == offset + Len(window) - 1
             offset2 == IF window[1] = 0 THEN offset1 - 1 ELSE offset1
         IN  BuildMapping(windows, k + 1, mapping1, left_idx \cup {left},
                          offset2)

EmptyMapping == [idx \in {} |-> 0]

\* The loop that keeps or drops each old edge.
RECURSIVE NewEdges(_, _, _, _, _)
NewEdges(edges, i, axis_bins, mapping, left_idx) ==
    IF i > Len(edges) - 1 THEN <<>>
    ELSE LET rest == NewEdges(edges, i + 1, axis_bins, mapping, left_idx)
         IN  IF /\ i # axis_bins - 2
                /\ (i + 1) \in DOMAIN mapping
                /\ (i + 1) \notin left_idx
             THEN rest
             ELSE <<edges[i + 1]>> \o rest

\* translate(idx)
Translate(h, new_hist, axis, mapping, idx) ==
    IF idx \in DOMAIN mapping THEN mapping[idx]
    ELSE IF idx = 0 THEN 0
    ELSE AxisFindBin(new_hist, axis, GetBinCenter(h, axis, idx))

\* The fill loop over all bins of the old histogram, in global order.  The
\* range assertion of get_sum_w2 on the new histogram ends it.
RECURSIVE MergeFill(_, _, _, _, _)
MergeFill(h, new_hist, axis, mapping, i) ==
    IF i >= GetSize(h) THEN [raised |-> "none", hist |-> new_hist]
    ELSE LET c == xyz(h, i)
             n == [a \in 1..3 |->
                      IF a = axis + 1
                      THEN Translate(h, new_hist, axis, mapping, c[a])
                      ELSE c[a]]
         IN  IF ~SumW2InRange(new_hist, n[1], n[2], n[3])
             THEN [raised |-> "AssertionError", hist |-> new_hist]
             ELSE LET g == GetBin(new_hist, n[1], n[2], n[3])
                      w == SumW2Index(new_hist, n[1], n[2], n[3])
                      filled ==
                          [new_hist EXCEPT
                              !.content[g] = @ + h.content[i],
                              !.sumw2[w] = @ + h.sumw2[SumW2Index(h, c[1], c[2], c[3])]]
                  IN  MergeFill(h, filled, axis, mapping, i + 1)

\* merge_bins(bin_ranges, axis): what it raises or returns
merge_bins(h, bin_ranges, axis) ==
    IF axis > h.dim - 1 THEN Raise("ValueError", "axis is out of range")
    ELSE IF axis < 0 THEN Raise("ValueError", "axis must be 0, 1, or 2")
    ELSE
    LET axis_bins == nbins(h, axis) + 2
        col == CollectWindows(bin_ranges, 1, axis_bins, <<>>)
    IN  IF col.err # "" THEN Raise("ValueError", col.err)
        ELSE IF col.windows = <<>>
        THEN [raised |-> "none", msg |-> "clone", hist |-> h]
        ELSE IF Len(col.windows) > 1 /\ WindowsOverlap(col.windows)
        THEN Raise("ValueError", "bin index windows overlap")
        ELSE
        LET windows == SortWindows(col.windows)
            bm == BuildMapping(windows, 1, EmptyMapping, {}, 0)
            new_edges == NewEdges(Edges(h, axis), 0, axis_bins,
                                  bm.mapping, bm.left_idx)
            new_hist == new_binning_template(h, new_edges, axis)
            fill == MergeFill(h, new_hist, axis, bm.mapping, 0)
        IN  IF fill.raised # "none" THEN Raise(fill.raised, "")
            ELSE [raised |-> "none", msg |-> "merged",
                  hist |-> [fill.hist EXCEPT !.entries = h.entries]]

(***************************************************************************)
(* The histograms the calls are made on: one whose cells all differ, cell  *)
(* i holding 2^i (so that the sum of any set of cells names the set) and   *)
(* an error of GetSize - i, that is a sum of squared weights of            *)
(* (GetSize - i)^2, and in one dimension a freshly constructed (empty) one *)
(* as well.                                                                *)
(***************************************************************************)
Shapes ==
    {<<1, <<UniformEdges(n), UniformEdges(1), UniformEdges(1)>>>> :
        n \in 1..MaxBins}
    \cup {<<2, <<UniformEdges(n), UniformEdges(m), UniformEdges(1)>>>> :
        n, m \in 1..MaxBins2D}

Patterned(h) ==
    [h EXCEPT !.content = [i \in 0..(GetSize(h) - 1) |-> Pow2(i)],
              !.sumw2 = [i \in 0..(GetSize(h) - 1) |->
                            (GetSize(h) - i) * (GetSize(h) - i)],
              !.entries = GetSize(h)]

Hists ==
    {NewHist(s[1], s[2]) : s \in {t \in Shapes : t[1] = 1}}
    \cup {Patterned(NewHist(s[1], s[2])) : s \in Shapes}

(***************************************************************************)
(* merge_bins is called once on a histogram, with at most two ranges along *)
(* an axis.  A range is a pair of indices from just below -(nbins+2) to    *)
(* nbins+2 (so that both ends can be clipped), or a sequence that is not a *)
(* pair.                                                                   *)
(***************************************************************************)
RangeInputs(axis_bins) ==
    {<<l, r>> : l, r \in (0 - (axis_bins + 1))..axis_bins}
    \cup {<<1>>, <<0, 1, 2>>}

RangeLists(axis_bins) ==
    {<<>>}
    \cup {<<w>> : w \in RangeInputs(axis_bins)}
    \cup {<<w1, w2>> : w1, w2 \in RangeInputs(axis_bins)}

\* the axis lengths a call can meet: an axis outside the histogram has no
\* bins to index
AxisBinsOf(h, axis) == IF axis \in 0..(h.dim - 1) THEN nbins(h, axis) + 2 ELSE 0

InitMerge == /\ hist \in Hists
             /\ call = [op |-> "none"]

MergeBins ==
    /\ call.op = "none"
    /\ \E axis \in (0 - 1)..hist.dim :
       \E bin_ranges \in RangeLists(AxisBinsOf(hist, axis)) :
          call' = [op |-> "merge_bins", bin_ranges |-> bin_ranges,
                   axis |-> axis, out |-> merge_bins(hist, bin_ranges, axis)]
    /\ UNCHANGED hist

NextMerge == MergeBins

SpecMerge == InitMerge /\ [][NextMerge]_vars
(***************************************************************************)
(* rebinned.  The argument bins is a record: an int ([kind |-> "int", n]), *)
(* a tuple of ints ([kind |-> "tuple", t]), another iterable, a list of    *)
(* bin edges ([kind |-> "iter", edges]), or something else, such as None   *)
(* or a float ([kind |-> "other"]).                                        *)
(***************************************************************************)
\* TH1.Rebin / Rebin2D / Rebin3D with one group size per axis: along each
\* axis groups of ngroup[a] bins become one bin, and the bins left over
\* after the last complete group go to the overflow bin
RootRebin(h, ngroup) ==
    LET newn == [a \in 1..3 |->
                    IF a <= h.dim THEN h.nbins[a] \div ngroup[a] ELSE 1]
        new == NewHist(h.dim,
                       [a \in 1..3 |->
                           IF a <= h.dim
                           THEN [k \in 1..(newn[a] + 1) |->
                                    h.edges[a][(k - 1) * ngroup[a] + 1]]
                           ELSE h.edges[a]])
        To(a, c) == IF a > h.dim \/ c = 0 THEN c
                    ELSE IF c <= newn[a] * ngroup[a]
                    THEN ((c - 1) \div ngroup[a]) + 1
                    ELSE newn[a] + 1
        Target(i) == LET c == xyz(h, i)
                     IN  GetBin(new, To(1, c[1]), To(2, c[2]), To(3, c[3]))
        Cells(j) == {i \in 0..(GetSize(h) - 1) : Target(i) = j}
    IN  [new EXCEPT
            !.content = [j \in 0..(GetSize(new) - 1) |->
                            SumSet([i \in Cells(j) |-> h.content[i]], Cells(j))],
            !.sumw2 = [j \in 0..(GetSize(new) - 1) |->
                          SumSet([i \in Cells(j) |-> h.sumw2[i]], Cells(j))],
            !.entries = h.entries]

\* _parse_args on a list of bin edges: the message of the ValueError, ""
\* when the edges pass
EdgesError(bins) ==
    IF \E k \in 1..(Len(bins) - 1) : bins[k] > bins[k + 1]
    THEN "Bin edges must be sorted in ascending order"
    ELSE IF Cardinality(Elems(bins)) # Len(bins)
    THEN "Bin edges must not be repeated"
    ELSE ""

\* hist.FindBin(x, y, z): the global bin of a point; the coordinates of
\* missing axes are ignored
FindBin(h, x, y, z) ==
    GetBin(h, AxisFindBin(h, 0, x),
              IF h.dim >= 2 THEN AxisFindBin(h, 1, y) ELSE 0,
              IF h.dim >= 3 THEN AxisFindBin(h, 2, z) ELSE 0)

\* The loops over the real bins z, y, x of the old histogram, as one loop
\* over k = 0 .. nbinsx*nbinsy*nbinsz - 1 in the order of the three loops.
RECURSIVE RebinFill(_, _, _)
RebinFill(h, new, k) ==
    LET nx == nbins(h, 0)
        ny == nbins(h, 1)
        nz == nbins(h, 2)
    IN  IF k >= nx * ny * nz THEN new
        ELSE LET x == (k % nx) + 1
                 y == ((k \div nx) % ny) + 1
                 z == (k \div (nx * ny)) + 1
                 newbin == FindBin(new, GetBinCenter(h, 0, x),
                                   GetBinCenter(h, 1, y), GetBinCenter(h, 2, z))
                 idx == GetBin(h, x, y, z)
             IN  RebinFill(h,
                           [new EXCEPT !.content[newbin] = @ + h.content[idx],
                                       !.sumw2[newbin] = @ + h.sumw2[idx]],
                           k + 1)

\* (a variant that forgets the axis when bins is an int)
IntGroupsFirstAxis(ndim, axis, n) == [a \in 1..ndim |-> IF a = 1 THEN n ELSE 1]

\* _bins = [1] * ndim; _bins[axis] = bins
IntGroups(ndim, axis, n) == [a \in 1..ndim |-> IF a = axis + 1 THEN n ELSE 1]

rebinned(h, bins, axis) ==
    IF axis >= h.dim
    THEN Raise("ValueError",
               "axis must be less than the dimensionality of the histogram")
    ELSE LET tup == IF bins.kind = "int" THEN IntGroups(h.dim, axis, bins.n)
                    ELSE IF bins.kind = "tuple" THEN bins.t
                    ELSE <<>>
         IN
         IF bins.kind \in {"int", "tuple"}
         THEN IF Len(tup) # h.dim
              THEN Raise("ValueError",
                         "bins must be a tuple with the same number of elements as histogram axes")
              ELSE [raised |-> "none", via |-> "Rebin", ngroup |-> tup,
                    hist |-> RootRebin(h, [a \in 1..3 |->
                                              IF a <= h.dim THEN tup[a] ELSE 1])]
         ELSE IF bins.kind = "iter"
         THEN IF EdgesError(bins.edges) # ""
              THEN Raise("ValueError", EdgesError(bins.edges))
              ELSE [raised |-> "none", via |-> "edges",
                    hist |-> [RebinFill(h, new_binning_template(h, bins.edges, axis), 0)
                                 EXCEPT !.entries = h.entries]]
         ELSE Raise("TypeError",
                    "bins must either be an integer, a tuple, or an iterable")

\* the lists of bin edges tried: two to four edges over the axis and a
\* little beyond it, sorted or not
EdgeGrid == (0 - 1)..(2 * MaxBins + 1)

EdgeLists ==
    {<<a, b>> : a, b \in EdgeGrid}
    \cup {<<a, b, c>> : a, b, c \in {e \in EdgeGrid : e % 2 = 0}}

BinsInputs ==
    {[kind |-> "int", n |-> n] : n \in 1..MaxBins}
    \cup {[kind |-> "tuple", t |-> <<>>]}
    \cup {[kind |-> "tuple", t |-> <<n>>] : n \in 1..MaxBins}
    \cup {[kind |-> "tuple", t |-> <<n, m>>] : n, m \in 1..MaxBins2D}
    \cup {[kind |-> "tuple", t |-> <<1, 1, 1>>]}
    \cup {[kind |-> "iter", edges |-> e] : e \in EdgeLists}
    \cup {[kind |-> "other"]}

\* the group sizes a histogram accepts: 1 .. nbins along each of its axes
GroupsFit(h, bins) ==
    /\ bins.kind = "int" => \A a \in 1..h.dim : bins.n <= h.nbins[a]
    /\ (bins.kind = "tuple" /\ Len(bins.t) = h.dim)
          => \A a \in 1..h.dim : bins.t[a] <= h.nbins[a]

Shape3D == <<3, <<UniformEdges(1), UniformEdges(1), UniformEdges(1)>>>>

HistsAllDims ==
    Hists \cup {NewHist(Shape3D[1], Shape3D[2]),
                Patterned(NewHist(Shape3D[1], Shape3D[2]))}

InitRebin == /\ hist \in HistsAllDims
             /\ call = [op |-> "none"]

Rebinned ==
    /\ call.op = "none"
    /\ \E axis \in 0..3 :
       \E bins \in BinsInputs :
          /\ IF axis >= hist.dim THEN TRUE ELSE GroupsFit(hist, bins)
          /\ call' = [op |-> "rebinned", bins |-> bins, axis |-> axis,
                      out |-> rebinned(hist, bins, axis)]
    /\ UNCHANGED hist

NextRebin == Rebinned

SpecRebin == InitRebin /\ [][NextRebin]_vars

(***************************************************************************)
(* Bin contents and errors in the wrapped library.                         *)
(***************************************************************************)
\* the square root of a perfect square
Sqrt(x) == CHOOSE r \in 0..x : r * r <= x /\ x < (r + 1) * (r + 1)

\* GetBinContent(i) for a global index in range
GetBinContent(h, i) == h.content[i]

\* GetBinError(i): the root of the sum of squared weights
GetBinError(h, i) == Sqrt(h.sumw2[i])

\* SetBinContent(i, v) for a global index in range; it counts as an entry
SetBinContent(h, i, v) == [h EXCEPT !.content[i] = v, !.entries = @ + 1]

\* SetBinError(i, e): stores e^2
SetBinError(h, i, e) == [h EXCEPT !.sumw2[i] = e * e]

(***************************************************************************)
(* __getitem__ and __setitem__.  An index is an int ([kind |-> "int", i]), *)
(* a tuple of ints ([kind |-> "tuple", t]) or a slice ([kind |-> "slice",  *)
(* start, stop, step], each optional).  A value is a plain number          *)
(* ([kind |-> "plain", v]), a tuple ([kind |-> "tuple", t]) or the         *)
(* BinProxy of bin idx of this histogram ([kind |-> "proxy", idx]).        *)
(***************************************************************************)
\* _range_check(index): a global index
RangeCheck(h, index) == 0 <= index /\ index < GetSize(h)

\* _range_check(index, axis)
RangeCheckAxis(h, index, axis) == 0 <= index /\ index < nbins(h, axis) + 2

\* The index resolution shared by __getitem__ and __setitem__: the global
\* bin index, or what is raised.  Unpacking a tuple of the wrong length
\* raises ValueError; a 1D histogram never unpacks it.
ResolveIndex(h, index) ==
    IF index.kind = "tuple"
    THEN LET t == index.t IN
         IF h.dim = 2
         THEN IF Len(t) # 2 THEN Raise("ValueError", "unpack")
              ELSE IF ~RangeCheckAxis(h, t[1], 0) \/ ~RangeCheckAxis(h, t[2], 1)
              THEN Raise("IndexError", "bin index along axis is out of range")
              ELSE [raised |-> "none", idx |-> GetBin(h, t[1], t[2], 0)]
         ELSE IF h.dim = 3
         THEN IF Len(t) # 3 THEN Raise("ValueError", "unpack")
              ELSE IF \/ ~RangeCheckAxis(h, t[1], 0)
                      \/ ~RangeCheckAxis(h, t[2], 1)
                      \/ ~RangeCheckAxis(h, t[3], 2)
              THEN Raise("IndexError", "bin index along axis is out of range")
              ELSE [raised |-> "none", idx |-> GetBin(h, t[1], t[2], t[3])]
         ELSE [raised |-> "none", idx |-> GetBin(h, 0, 0, 0)]
    ELSE IF ~RangeCheck(h, index.i)
    THEN Raise("IndexError", "global bin index is out of range")
    ELSE [raised |-> "none", idx |-> index.i]

\* BinProxy(hist, idx): the bin it addresses and what its properties read
BinProxy(h, idx) ==
    [idx |-> idx, xyz |-> xyz(h, idx),
     value |-> GetBinContent(h, idx), error |-> GetBinError(h, idx)]

\* __getitem__ for an int or a tuple
getitem(h, index) ==
    LET r == ResolveIndex(h, index)
    IN  IF r.raised # "none" THEN r
        ELSE [raised |-> "none", proxy |-> BinProxy(h, r.idx)]

\* (a variant that stores the pair of a tuple the other way round)
AssignBinSwapped(h, i, value) ==
    IF value.kind = "proxy"
    THEN LET h1 == SetBinContent(h, i, GetBinContent(h, value.idx))
         IN  [raised |-> "none",
              hist |-> SetBinError(h1, i, GetBinError(h1, value.idx))]
    ELSE IF value.kind = "tuple"
    THEN IF Len(value.t) # 2 THEN Raise("ValueError", "unpack")
         ELSE [raised |-> "none",
               hist |-> SetBinError(SetBinContent(h, i, value.t[2]), i,
                                    value.t[1])]
    ELSE [raised |-> "none", hist |-> SetBinContent(h, i, value.v)]

\* The three ways a single bin is assigned: a BinProxy and a 2-tuple set
\* content and error, anything else the content.  Unpacking a tuple that is
\* not a pair raises ValueError.
AssignBin(h, i, value) ==
    IF value.kind = "proxy"
    THEN LET h1 == SetBinContent(h, i, GetBinContent(h, value.idx))
         IN  [raised |-> "none",
              hist |-> SetBinError(h1, i, GetBinError(h1, value.idx))]
    ELSE IF value.kind = "tuple"
    THEN IF Len(value.t) # 2 THEN Raise("ValueError", "unpack")
         ELSE [raised |-> "none",
               hist |-> SetBinError(SetBinContent(h, i, value.t[1]), i,
                                    value.t[2])]
    ELSE [raised |-> "none", hist |-> SetBinContent(h, i, value.v)]

\* __setitem__ for an int or a tuple index
setitem(h, index, value) ==
    LET r == ResolveIndex(h, index)
    IN  IF r.raised # "none" THEN r
        ELSE AssignBin(h, r.idx, value)

\* The loops of the slice branch.  A list of BinProxies is read while the
\* histogram is written.
RECURSIVE SliceLoopProxy(_, _, _, _)
SliceLoopProxy(h, indices, value, k) ==
    IF k > Len(indices) THEN h
    ELSE LET h1 == SetBinContent(h, indices[k], GetBinContent(h, value[k].idx))
             h2 == SetBinError(h1, indices[k], GetBinError(h1, value[k].idx))
         IN  SliceLoopProxy(h2, indices, value, k + 1)

RECURSIVE SliceLoopPlain(_, _, _, _)
SliceLoopPlain(h, indices, value, k) ==
    IF k > Len(indices) THEN h
    ELSE SliceLoopPlain(SetBinContent(h, indices[k], value[k].v),
                        indices, value, k + 1)

\* The branch for a list of tuples unpacks the list itself (_value, _error
\* = value): a list that has not two elements fails to unpack, and a list
\* of two hands a tuple to SetBinContent, which no overload takes.
SliceTuples(h, indices, value) ==
    IF Len(value) # 2 THEN Raise("ValueError", "unpack")
    ELSE Raise("TypeError", "SetBinContent")

\* (a variant that compares the lengths the wrong way round)
LengthMismatchOnlyShorter(indices, value) == Len(indices) > Len(value)

\* len(indices) != len(value)
LengthMismatch(indices, value) == Len(indices) # Len(value)

\* __setitem__ for a slice; value is a list
setslice(h, index, value) ==
    IF index.step = Some(0) THEN Raise("ValueError", "slice step cannot be zero")
    ELSE
    LET ind == SliceIndices(index.start, index.stop, index.step, GetSize(h))
        indices == Range(ind[1], ind[2], ind[3])
    IN  IF LengthMismatch(indices, value)
        THEN Raise("RuntimeError", "len(value) != len(indices)")
        ELSE IF value # <<>> /\ value[1].kind = "proxy"
        THEN [raised |-> "none", hist |-> SliceLoopProxy(h, indices, value, 1)]
        ELSE IF value # <<>> /\ value[1].kind = "tuple"
        THEN SliceTuples(h, indices, value)
        ELSE [raised |-> "none", hist |-> SliceLoopPlain(h, indices, value, 1)]

(***************************************************************************)
(* Indexing a histogram: one assignment h[index] = value, and reads        *)
(* h[index] before it or, with the same index, after it.                   *)
(***************************************************************************)
IntIndex(i) == [kind |-> "int", i |-> i]

TupleIndex(t) == [kind |-> "tuple", t |-> t]

\* the coordinates tried along an axis: one below and one above the axis
Coords(h, axis) == (0 - 1)..(nbins(h, axis) + 2)

IndexInputs(h) ==
    {IntIndex(i) : i \in (0 - 2)..(GetSize(h) + 1)}
    \cup (IF h.dim = 1
          THEN {TupleIndex(<<i>>) : i \in Coords(h, 0)}
               \cup {TupleIndex(<<i, 0>>) : i \in Coords(h, 0)}
          ELSE IF h.dim = 2
          THEN {TupleIndex(<<i, j>>) : i \in Coords(h, 0), j \in Coords(h, 1)}
               \cup {TupleIndex(<<1>>), TupleIndex(<<1, 1, 1>>)}
          ELSE {TupleIndex(<<i, j, k>>) :
                    i \in Coords(h, 0), j \in Coords(h, 1), k \in Coords(h, 2)}
               \cup {TupleIndex(<<1>>), TupleIndex(<<1, 1>>)})

ValueInputs(h) ==
    {[kind |-> "plain", v |-> v] : v \in 0..MaxVal}
    \cup {[kind |-> "tuple", t |-> <<v, e>>] : v, e \in 0..MaxVal}
    \cup {[kind |-> "tuple", t |-> <<1>>], [kind |-> "tuple", t |-> <<1, 1, 1>>]}
    \cup {[kind |-> "proxy", idx |-> i] : i \in 0..(GetSize(h) - 1)}

InitIndex == /\ hist \in HistsAllDims
             /\ call = [op |-> "none"]

GetItem ==
    /\ call.op \in {"none", "setitem"}
    /\ \E index \in IndexInputs(hist) :
          /\ call.op = "setitem" => index = call.index
          /\ call' = [op |-> "getitem", index |-> index,
                      out |-> getitem(hist, index), prev |-> call]
    /\ UNCHANGED hist

SetItem ==
    /\ call.op = "none"
    /\ \E index \in IndexInputs(hist) :
       \E value \in ValueInputs(hist) :
          LET out == setitem(hist, index, value) IN
          /\ call' = [op |-> "setitem", index |-> index, value |-> value,
                      raised |-> out.raised, before |-> hist]
          /\ hist' = IF out.raised = "none" THEN out.hist ELSE hist

NextIndex == GetItem \/ SetItem

SpecIndex == InitIndex /\ [][NextIndex]_vars

(***************************************************************************)
(* Assigning to a slice: h[start:stop:step] = value, once, on a 1D         *)
(* histogram or the smallest 2D one.  The lists tried are plain numbers,   *)
(* (value, error) tuples, and the BinProxies of consecutive bins.          *)
(***************************************************************************)
SliceHists ==
    {h \in Hists : (h.dim = 1 /\ h.nbins[1] <= MaxBinsSlice)
                   \/ (h.dim = 2 /\ h.nbins[1] = 1 /\ h.nbins[2] = 1)}

Optional(S) == {None} \cup {Some(v) : v \in S}

SliceInputs(h) ==
    {[kind |-> "slice", start |-> a, stop |-> b, step |-> st] :
        a \in Optional((0 - (GetSize(h) + 1))..(GetSize(h) + 1)),
        b \in Optional((0 - (GetSize(h) + 1))..(GetSize(h) + 1)),
        st \in Optional({0 - 2, 0 - 1, 0, 1, 2})}

ListInputs(h) ==
    {[k \in 1..n |-> [kind |-> "plain", v |-> v + k]] :
        n \in 0..MaxLen, v \in 0..(MaxVal - 1)}
    \cup {[k \in 1..n |-> [kind |-> "tuple", t |-> <<v + k, v + k + 1>>]] :
        n \in 1..MaxLen, v \in 0..(MaxVal - 1)}
    \cup {[k \in 1..n |-> [kind |-> "proxy", idx |-> a + k - 1]] :
        n \in 1..MaxLen, a \in 0..(GetSize(h) - 1)}

InitSlice == /\ hist \in SliceHists
             /\ call = [op |-> "none"]

SetSlice ==
    /\ call.op = "none"
    /\ \E index \in SliceInputs(hist) :
       \E value \in ListInputs(hist) :
          LET out == setslice(hist, index, value) IN
          /\ \A k \in 1..Len(value) :
                value[k].kind = "proxy" => value[k].idx < GetSize(hist)
          /\ call' = [op |-> "setslice", index |-> index, value |-> value,
                      raised |-> out.raised, before |-> hist]
          /\ hist' = IF out.raised = "none" THEN out.hist ELSE hist

NextSlice == SetSlice

SpecSlice == InitSlice /\ [][NextSlice]_vars

(***************************************************************************)
(* quantiles(quantiles, strict=True) on a 1D histogram.  A cumulative      *)
(* probability is a number of quarters, q/QDen.  The integral array of the *)
(* library holds the running sums of the real bins, cum[0] = 0 ..          *)
(* cum[nbins], divided by the total cum[nbins] unless the total is zero,   *)
(* in which case the sums are left as they are.  Comparisons with a        *)
(* probability are made on the numerators.                                 *)
(***************************************************************************)
QDen == 4

\* the running sum of the real bins 1..k
RECURSIVE Cumulative(_, _)
Cumulative(h, k) == IF k = 0 THEN 0 ELSE Cumulative(h, k - 1) + h.content[k]

\* integral[k] < q, for k in 0..nbins
IntegralBelow(h, k, q) ==
    LET total == Cumulative(h, nbins(h, 0))
    IN  IF total > 0 THEN Cumulative(h, k) * QDen < q * total
        ELSE IF total < 0 THEN Cumulative(h, k) * QDen > q * total
        ELSE Cumulative(h, k) * QDen < q

\* GetBinLowEdge(i) of the x axis, for i up to nbins+2: past the overflow
\* bin the axis goes on with its mean bin width
LowEdge(h, i) ==
    LET e == h.edges[1]
        n == nbins(h, 0)
    IN  IF i <= n + 1 THEN GetBinLowEdge(h, 0, i)
        ELSE e[n + 1] + (i - n - 1) * ((e[n + 1] - e[1]) \div n)

\* the sorted sequence of the elements of a set of integers
RECURSIVE SortedSeq(_)
SortedSeq(S) ==
    IF S = {} THEN <<>>
    ELSE LET m == CHOOSE m \in S : \A x \in S : m <= x
         IN  <<m>> \o SortedSeq(S \ {m})

\* np.searchsorted(integral[0..nbins], q, side='left'): a bisection
RECURSIVE SearchSorted(_, _, _, _)
SearchSorted(h, q, lo, hi) ==
    IF lo >= hi THEN lo
    ELSE LET mid == (lo + hi) \div 2
         IN  IF IntegralBelow(h, mid, q) THEN SearchSorted(h, q, mid + 1, hi)
             ELSE SearchSorted(h, q, lo, mid)

\* The branch with numpy: np.take raises IndexError for a position past the
\* last edge
StrictNumpy(h, qs) ==
    LET n == nbins(h, 0)
        idx == [k \in 1..Len(qs) |-> SearchSorted(h, qs[k], 0, n + 1)]
    IN  IF \E k \in 1..Len(qs) : idx[k] > n
        THEN Raise("IndexError", "take")
        ELSE [raised |-> "none",
              output |-> SortedSeq({LowEdge(h, idx[k] + 1) : k \in 1..Len(qs)})]

\* while integral[ibin] < quant and ibin < nbins + 1: ibin += 1, one step;
\* integral[nbins+1] is read only where the second condition ends the loop
Advance(h, ibin, quant) ==
    IF ibin < nbins(h, 0) + 1 /\ IntegralBelow(h, ibin, quant) THEN ibin + 1
    ELSE ibin

RECURSIVE AdvanceAll(_, _, _)
AdvanceAll(h, ibin, quant) ==
    IF Advance(h, ibin, quant) = ibin THEN ibin
    ELSE AdvanceAll(h, Advance(h, ibin, quant), quant)

\* The branch without numpy: the loop over the sorted unique probabilities
RECURSIVE StrictLoop(_, _, _, _)
StrictLoop(h, quantiles, k, ibin) ==
    IF k > Len(quantiles) THEN {}
    ELSE LET ib == AdvanceAll(h, ibin, quantiles[k])
             edge == LowEdge(h, ib + 1)
         IN  IF ib >= nbins(h, 0) + 1 THEN {edge}
             ELSE {edge} \cup StrictLoop(h, quantiles, k + 1, ib)

StrictPython(h, qs) ==
    [raised |-> "none",
     output |-> SortedSeq(StrictLoop(h, SortedSeq(Elems(qs)), 1, 0))]

\* quantiles(qs, strict=True), with numpy importable or not
quantiles(h, qs, use_numpy) ==
    IF use_numpy THEN StrictNumpy(h, qs) ELSE StrictPython(h, qs)

\* 1D histograms with any contents 0..MaxVal in their real bins
QuantileHists ==
    UNION {{[NewHist(1, <<UniformEdges(n), UniformEdges(1), UniformEdges(1)>>)
                EXCEPT !.content = [i \in 0..(n + 1) |->
                                       IF i \in 1..n THEN c[i] ELSE 0],
                       !.sumw2 = [i \in 0..(n + 1) |->
                                       IF i \in 1..n THEN c[i] ELSE 0],
                       !.entries = SumSet(c, 1..n)] :
              c \in [1..n -> 0..MaxVal]} : n \in 1..MaxBins}

QuantileLists ==
    UNION {[1..n -> 0..QDen] : n \in 1..MaxQuantiles}

InitQuantiles == /\ hist \in QuantileHists
                 /\ call = [op |-> "none"]

Quantiles ==
    /\ call.op = "none"
    /\ \E qs \in QuantileLists :
       \E use_numpy \in BOOLEAN :
          call' = [op |-> "quantiles", qs |-> qs, use_numpy |-> use_numpy,
                   out |-> quantiles(hist, qs, use_numpy)]
    /\ UNCHANGED hist

NextQuantiles == Quantiles

SpecQuantiles == InitQuantiles /\ [][NextQuantiles]_vars

(***************************************************************************)
(* BinProxy.overflow, bins(overflow), iteration and len.  The property     *)
(* returns True from inside its loop and falls off the end otherwise, so   *)
(* its value is True (Some(TRUE)) or None.                                 *)
(***************************************************************************)
Truthy(v) == v # None

\* (a variant that looks at the first axis only)
OverflowLoopFirstAxis(h, indices, i) ==
    IF i >= 1 THEN None
    ELSE IF indices[i + 1] = 0 \/ indices[i + 1] = nbins(h, i) + 1
    THEN Some(TRUE)
    ELSE None

\* for i in xrange(GetDimension()): if indices[i] == 0 or ... : return True
RECURSIVE OverflowLoop(_, _, _)
OverflowLoop(h, indices, i) ==
    IF i >= h.dim THEN None
    ELSE IF indices[i + 1] = 0 \/ indices[i + 1] = nbins(h, i) + 1
    THEN Some(TRUE)
    ELSE OverflowLoop(h, indices, i + 1)

\* BinProxy.overflow of the proxy of bin idx
overflow(h, idx) == OverflowLoop(h, xyz(h, idx), 0)

\* bins(overflow): the proxies the generator yields from global index i on
RECURSIVE BinsFrom(_, _, _)
BinsFrom(h, with_overflow, i) ==
    IF i >= GetSize(h) THEN <<>>
    ELSE (IF ~with_overflow /\ Truthy(overflow(h, i)) THEN <<>>
          ELSE <<BinProxy(h, i)>>)
         \o BinsFrom(h, with_overflow, i + 1)

\* bins(overflow)
hist_bins(h, with_overflow) == BinsFrom(h, with_overflow, 0)

\* __iter__
iter(h) == hist_bins(h, TRUE)

\* __len__
len(h) == GetSize(h)

InitBins == /\ hist \in HistsAllDims
            /\ call = [op |-> "none"]

Overflow ==
    /\ call.op = "none"
    /\ \E idx \in 0..(GetSize(hist) - 1) :
          call' = [op |-> "overflow", idx |-> idx, out |-> overflow(hist, idx)]
    /\ UNCHANGED hist

Bins ==
    /\ call.op = "none"
    /\ \E with_overflow \in BOOLEAN :
          call' = [op |-> "bins", overflow |-> with_overflow,
                   out |-> hist_bins(hist, with_overflow)]
    /\ UNCHANGED hist

Iter ==
    /\ call.op = "none"
    /\ call' = [op |-> "iter", out |-> iter(hist)]
    /\ UNCHANGED hist

Length ==
    /\ call.op = "none"
    /\ call' = [op |-> "len", out |-> len(hist)]
    /\ UNCHANGED hist

NextBins == Overflow \/ Bins \/ Iter \/ Length

SpecBins == InitBins /\ [][NextBins]_vars

(***************************************************************************)
(* get_sum_w2 and set_sum_w2 as calls.  A histogram that stores no squared *)
(* weights has an empty Sumw2 array.                                       *)
(***************************************************************************)
GetSumw2N(h) == Cardinality(DOMAIN h.sumw2)

WithoutSumw2(h) == [h EXCEPT !.sumw2 = <<>>]

get_sum_w2(h, x, y, z) ==
    IF GetSumw2N(h) = 0 THEN Raise("RuntimeError", "weights were not stored")
    ELSE IF ~SumW2InRange(h, x, y, z) THEN Raise("AssertionError", "assert")
    ELSE [raised |-> "none", value |-> h.sumw2[SumW2Index(h, x, y, z)]]

set_sum_w2(h, w, x, y, z) ==
    IF GetSumw2N(h) = 0 THEN Raise("RuntimeError", "weights were not stored")
    ELSE IF ~SumW2InRange(h, x, y, z) THEN Raise("AssertionError", "assert")
    ELSE [raised |-> "none",
          hist |-> [h EXCEPT !.sumw2[SumW2Index(h, x, y, z)] = w]]

\* the coordinates tried: along each of the three axes one below and one
\* above the axis
CoordInputs(h) ==
    {<<x, y, z>> : x \in Coords(h, 0), y \in Coords(h, 1), z \in Coords(h, 2)}

InitSumW2 == /\ hist \in HistsAllDims \cup {WithoutSumw2(h) : h \in HistsAllDims}
             /\ call = [op |-> "none"]

GetSumW2 ==
    /\ call.op \in {"none", "set_sum_w2"}
    /\ \E c \in CoordInputs(hist) :
          /\ call.op = "set_sum_w2" => c = call.xyz
          /\ call' = [op |-> "get_sum_w2", xyz |-> c,
                      out |-> get_sum_w2(hist, c[1], c[2], c[3]),
                      prev |-> call]
    /\ UNCHANGED hist

SetSumW2 ==
    /\ call.op = "none"
    /\ \E c \in CoordInputs(hist) :
       \E w \in 0..MaxVal :
          LET out == set_sum_w2(hist, w, c[1], c[2], c[3]) IN
          /\ call' = [op |-> "set_sum_w2", xyz |-> c, w |-> w,
                      raised |-> out.raised, before |-> hist]
          /\ hist' = IF out.raised = "none" THEN out.hist ELSE hist

NextSumW2 == GetSumW2 \/ SetSumW2

SpecSumW2 == InitSumW2 /\ [][NextSumW2]_vars

(***************************************************************************)
(* __iadd__ and __isub__.  An operand is a number ([kind |-> "number", v]),*)
(* a tuple or a list of numbers ([kind |-> "tuple" or "list", t]) or a     *)
(* histogram of the same binning ([kind |-> "hist", h]).                   *)
(***************************************************************************)
\* isbasictype(thing): a float, an int or a long
isbasictype(other) == other.kind = "number"

\* dim(thing): the dimension of the histogram
dim(h) == h.dim

\* Fill(*args) with dim or dim + 1 arguments, the last of dim + 1 the
\* weight: one more entry, the weight added to the bin found and its square
\* to the bin's sum of squared weights
Fill(h, args) ==
    LET w == IF Len(args) = h.dim + 1 THEN args[h.dim + 1] ELSE 1
        c == [a \in 1..3 |-> IF a <= h.dim THEN args[a] ELSE 0]
        b == FindBin(h, c[1], c[2], c[3])
    IN  [h EXCEPT !.content[b] = @ + w,
                  !.sumw2[b] = @ + w * w,
                  !.entries = @ + 1]

\* TH1.Add(other, c) for a histogram of the same binning
Add(h, other, c) ==
    LET e == h.entries + c * other.entries
    IN  [h EXCEPT !.content = [i \in DOMAIN h.content |->
                                  h.content[i] + c * other.content[i]],
                  !.sumw2 = [i \in DOMAIN h.sumw2 |->
                                  h.sumw2[i] + c * c * other.sumw2[i]],
                  !.entries = IF e < 0 THEN 0 - e ELSE e]

iadd(h, other) ==
    IF isbasictype(other)
    THEN IF h.dim # 1
         THEN Raise("ValueError",
                    "A multidimensional histogram must be filled with a tuple")
         ELSE [raised |-> "none", hist |-> Fill(h, <<other.v>>)]
    ELSE IF other.kind \in {"list", "tuple"}
    THEN IF dim(h) \notin {Len(other.t), Len(other.t) - 1}
         THEN Raise("ValueError", "Dimension does not match")
         ELSE [raised |-> "none", hist |-> Fill(h, other.t)]
    ELSE [raised |-> "none", hist |-> Add(h, other.h, 1)]

\* The branch of __isub__ for a list or a tuple: other + (-1, ) and
\* other[:-1] + (...) add a tuple to the operand, which a list does not
\* take
SubtractPoint(h, other) ==
    IF other.kind = "list" /\ Len(other.t) \in {dim(h), dim(h) + 1}
    THEN Raise("TypeError", "can only concatenate list to list")
    ELSE IF Len(other.t) = dim(h)
    THEN [raised |-> "none", hist |-> Fill(h, other.t \o <<0 - 1>>)]
    ELSE IF Len(other.t) = dim(h) + 1
    THEN [raised |-> "none",
          hist |-> Fill(h, SubSeq(other.t, 1, Len(other.t) - 1)
                               \o <<(0 - 1) * other.t[Len(other.t)]>>)]
    ELSE Raise("ValueError", "Dimension does not match")

isub(h, other) ==
    IF isbasictype(other)
    THEN IF h.dim # 1
         THEN Raise("ValueError",
                    "A multidimensional histogram must be filled with a tuple")
         ELSE [raised |-> "none", hist |-> Fill(h, <<other.v, 0 - 1>>)]
    ELSE IF other.kind \in {"list", "tuple"}
    THEN SubtractPoint(h, other)
    ELSE [raised |-> "none", hist |-> Add(h, other.h, 0 - 1)]

\* the points filled along an axis: the centre of every bin, a point below
\* the axis and a point above it
FillPoints(h, axis) == {2 * k - 1 : k \in 0..(nbins(h, axis) + 1)}

\* the fill points of the histogram, with and without a weight, and
\* sequences that are too short and too long
PointInputs(h) ==
    LET P == {<<x, y, z>> : x \in FillPoints(h, 0), y \in FillPoints(h, 1),
                            z \in FillPoints(h, 2)}
    IN  {SubSeq(p, 1, h.dim) : p \in P}
        \cup {SubSeq(p, 1, h.dim) \o <<w>> : p \in P, w \in 0..MaxVal}
        \cup {SubSeq(<<1, 1, 1>>, 1, h.dim - 1), <<1, 1, 1, 1, 1>>}

OperandInputs(h) ==
    {[kind |-> "number", v |-> x] : x \in FillPoints(h, 0)}
    \cup {[kind |-> k, t |-> t] : k \in {"tuple", "list"}, t \in PointInputs(h)}
    \cup {[kind |-> "hist", h |-> o] :
             o \in {g \in HistsAllDims : g.dim = h.dim /\ g.edges = h.edges}}

InitArith == /\ hist \in HistsAllDims
             /\ call = [op |-> "none"]

IAdd ==
    /\ call.op = "none"
    /\ \E other \in OperandInputs(hist) :
          LET out == iadd(hist, other) IN
          /\ call' = [op |-> "iadd", other |-> other, raised |-> out.raised,
                      msg |-> IF out.raised = "none" THEN "" ELSE out.msg,
                      before |-> hist]
          /\ hist' = IF out.raised = "none" THEN out.hist ELSE hist

ISub ==
    /\ call.op = "none"
    /\ \E other \in OperandInputs(hist) :
          LET out == isub(hist, other) IN
          /\ call' = [op |-> "isub", other |-> other, raised |-> out.raised,
                      msg |-> IF out.raised = "none" THEN "" ELSE out.msg,
                      before |-> hist]
          /\ hist' = IF out.raised = "none" THEN out.hist ELSE hist

NextArith == IAdd \/ ISub

SpecArith == InitArith /\ [][NextArith]_vars

(***************************************************************************)
(* What the claims about merge_bins speak of, stated without the code's    *)
(* loops.                                                                  *)
(***************************************************************************)
IsMergeCall == call.op = "merge_bins"

AxisValid == call.axis \in 0..(hist.dim - 1)

\* a range that passes the checks on its shape
WellFormed(w) == Len(w) = 2 /\ w[1] # w[2] /\ ~(w[1] < 0 /\ w[2] >= 0)

\* The bins of the range (l, r), both ends included: a negative index counts
\* from axis_bins, and what lies outside the axis is cut off
ResolvedBins(w, axis_bins) ==
    LET lo == IF w[1] < 0 THEN w[1] + axis_bins ELSE w[1]
        hi == IF w[2] < 0 THEN w[2] + axis_bins ELSE w[2]
    IN  {b \in 0..(axis_bins - 1) : lo <= b /\ b <= hi}

Resolvable(w) == Len(w) = 2

PairwiseDisjoint(ranges, axis_bins) ==
    \A i, j \in 1..Len(ranges) :
        i < j => ResolvedBins(ranges[i], axis_bins)
                     \cap ResolvedBins(ranges[j], axis_bins) = {}

\* the non-empty sets of bins of the ranges
WindowSets(ranges, axis_bins) ==
    {ResolvedBins(ranges[k], axis_bins) : k \in 1..Len(ranges)} \ {{}}

\* edge k lies between bin k and bin k+1; the edges strictly inside a range
RemovedEdges(ws, n) == {k \in 1..(n - 1) : \E w \in ws : k \in w /\ (k + 1) \in w}

MinOf(S) == CHOOSE m \in S : \A x \in S : m <= x

\* the new index of old real bin b
ShiftedIndex(b, ws, n) == b - Cardinality({k \in RemovedEdges(ws, n) : k < b})

\* the real bin a range is merged into
MergedInto(w, n) ==
    IF w \cap 1..n # {} THEN MinOf(w \cap 1..n)
    ELSE IF 0 \in w THEN 1
    ELSE n

\* the new bin of old bin b
TargetBin(b, ws, n) ==
    IF \E w \in ws : b \in w
    THEN ShiftedIndex(MergedInto(CHOOSE w \in ws : b \in w, n), ws, n)
    ELSE IF b = 0 THEN 0
    ELSE IF b = n + 1 THEN n + 1 - Cardinality(RemovedEdges(ws, n))
    ELSE ShiftedIndex(b, ws, n)

RECURSIVE KeptEdges(_, _, _)
KeptEdges(edges, k, removed) ==
    IF k > Len(edges) - 1 THEN <<>>
    ELSE (IF k \in removed THEN <<>> ELSE <<edges[k + 1]>>)
         \o KeptEdges(edges, k + 1, removed)

\* the content of the cell of h with coordinates c, bin b along the axis
ContentAt(h, c, axis, b) ==
    LET d == [c EXCEPT ![axis + 1] = b]
    IN  h.content[GetBin(h, d[1], d[2], d[3])]

\* new is old with the ranges merged along the axis
IsMergeOf(new, old, axis, ws) ==
    LET n == nbins(old, axis) IN
    /\ new.dim = old.dim
    /\ new.edges = [a \in 1..3 |->
                       IF a = axis + 1
                       THEN KeptEdges(old.edges[a], 0, RemovedEdges(ws, n))
                       ELSE old.edges[a]]
    /\ \A j \in 0..(GetSize(new) - 1) :
          LET c == xyz(new, j)
              from == {b \in 0..(n + 1) : TargetBin(b, ws, n) = c[axis + 1]}
          IN  new.content[j]
                  = SumSet([b \in from |-> ContentAt(old, c, axis, b)], from)

(***************************************************************************)
(* C1.  On a histogram with n >= 2 real bins along the axis,               *)
(* merge_bins([(0, 1), (-2, -1)]) returns a histogram with the edges of    *)
(* the original in which new bin 1 holds old bin 0 + old bin 1, new bin n  *)
(* holds old bin n + old bin n+1, the underflow and overflow bins are 0    *)
(* and every other bin keeps its content.                                  *)
(***************************************************************************)
C1_Case ==
    /\ IsMergeCall
    /\ AxisValid
    /\ call.bin_ranges = <<<<0, 1>>, <<0 - 2, 0 - 1>>>>
    /\ nbins(hist, call.axis) >= 2

C1_MergeOverflowBins ==
    C1_Case =>
        LET n == nbins(hist, call.axis)
            new == call.out.hist
        IN  /\ call.out.raised = "none"
            /\ new.edges = hist.edges
            /\ new.nbins = hist.nbins
            /\ \A j \in 0..(GetSize(new) - 1) :
                  LET c == xyz(new, j)
                      b == c[call.axis + 1]
                  IN  new.content[j] =
                        IF b = 1
                        THEN ContentAt(hist, c, call.axis, 0)
                             + ContentAt(hist, c, call.axis, 1)
                        ELSE IF b = n
                        THEN ContentAt(hist, c, call.axis, n)
                             + ContentAt(hist, c, call.axis, n + 1)
                        ELSE IF b = 0 \/ b = n + 1 THEN 0
                        ELSE ContentAt(hist, c, call.axis, b)

C1_Witness ==
    /\ C1_Case
    /\ hist.dim = 1
    /\ nbins(hist, 0) = 3
    /\ call.out.raised = "none"
    /\ call.out.hist.content = (0 :> 0 @@ 1 :> 3 @@ 2 :> 4 @@ 3 :> 24 @@ 4 :> 0)

(***************************************************************************)
(* C2.  For pairwise non-overlapping ranges merge_bins returns the         *)
(* histogram with each range merged into one bin: the edges strictly       *)
(* inside a range are removed, the merged bin holds the sum of the range   *)
(* (a range with the underflow bin goes to the first real bin), and every  *)
(* bin outside the ranges keeps its content, its index lowered by the      *)
(* number of edges removed to its left.  Ranges that resolve to the        *)
(* overflow bin alone are left out of the statement.                       *)
(***************************************************************************)
C2_Case ==
    /\ IsMergeCall
    /\ AxisValid
    /\ \A k \in 1..Len(call.bin_ranges) : WellFormed(call.bin_ranges[k])
    /\ PairwiseDisjoint(call.bin_ranges, nbins(hist, call.axis) + 2)
    /\ WindowSets(call.bin_ranges, nbins(hist, call.axis) + 2) # {}
    /\ {nbins(hist, call.axis) + 1}
           \notin WindowSets(call.bin_ranges, nbins(hist, call.axis) + 2)

C2_MergeRanges ==
    C2_Case =>
        /\ call.out.raised = "none"
        /\ IsMergeOf(call.out.hist, hist, call.axis,
                     WindowSets(call.bin_ranges, nbins(hist, call.axis) + 2))

(***************************************************************************)
(* C3.  As claimed: merge_bins raises ValueError('bin index windows        *)
(* overlap') whenever two of the ranges, resolved and clipped, share a     *)
(* bin, and never when the resolved ranges are pairwise disjoint.          *)
(***************************************************************************)
RaisedOverlap ==
    /\ call.out.raised = "ValueError"
    /\ call.out.msg = "bin index windows overlap"

C3_OverlapAlwaysRaises ==
    (/\ IsMergeCall
     /\ AxisValid
     /\ \A k \in 1..Len(call.bin_ranges) : Resolvable(call.bin_ranges[k]))
    => (RaisedOverlap
            <=> ~PairwiseDisjoint(call.bin_ranges, nbins(hist, call.axis) + 2))

(***************************************************************************)
(* C3, amended.  When every range is well-formed, merge_bins raises        *)
(* ValueError('bin index windows overlap') exactly when two of the         *)
(* resolved ranges share a bin, and then returns no histogram.             *)
(***************************************************************************)
C3_OverlapRaisesIfWellFormed ==
    /\ (IsMergeCall /\ RaisedOverlap) => "hist" \notin DOMAIN call.out
    /\ (/\ IsMergeCall
        /\ AxisValid
        /\ \A k \in 1..Len(call.bin_ranges) : WellFormed(call.bin_ranges[k]))
       => (RaisedOverlap
            <=> ~PairwiseDisjoint(call.bin_ranges, nbins(hist, call.axis) + 2))

C3_Witness ==
    /\ IsMergeCall
    /\ call.axis = 0
    /\ nbins(hist, 0) = 3
    /\ call.bin_ranges = <<<<1, 2>>, <<0 - 3, 0 - 1>>>>
    /\ RaisedOverlap

(***************************************************************************)
(* C4.  merge_bins raises ValueError, and returns no histogram, for an     *)
(* axis above dimension-1 and for a range that has not two elements, has   *)
(* l = r, or has l < 0 <= r; a range without bins is skipped; and when no  *)
(* range has bins the result is a clone: same binning, same contents.      *)
(***************************************************************************)
HasBins(w) == ResolvedBins(w, nbins(hist, call.axis) + 2) # {}

C4_MalformedRejected ==
    IsMergeCall =>
        /\ call.axis > hist.dim - 1
              => call.out.raised = "ValueError" /\ "hist" \notin DOMAIN call.out
        /\ (AxisValid /\ \E k \in 1..Len(call.bin_ranges) :
                             ~WellFormed(call.bin_ranges[k]))
              => call.out.raised = "ValueError" /\ "hist" \notin DOMAIN call.out
        /\ (AxisValid /\ \A k \in 1..Len(call.bin_ranges) :
                             WellFormed(call.bin_ranges[k]))
              => /\ call.out = merge_bins(hist,
                                          SelectSeq(call.bin_ranges, HasBins),
                                          call.axis)
                 /\ SelectSeq(call.bin_ranges, HasBins) = <<>>
                       => call.out.raised = "none" /\ call.out.hist = hist

C4_Witness ==
    /\ IsMergeCall
    /\ call.axis = 0
    /\ hist.content[1] = 2
    /\ call.bin_ranges = <<<<3, 1>>, <<1, 2>>>>
    /\ call.out.raised = "none"
    /\ call.out.hist.nbins[1] = hist.nbins[1] - 1

(***************************************************************************)
(* C5.  rebinned(bins, axis): axis >= dimension raises ValueError whatever *)
(* bins is; an int N groups N bins along the axis and 1 along every other  *)
(* axis; a tuple must have one element per dimension (else ValueError) and *)
(* gives the group size of each axis; another iterable gives the new bin   *)
(* edges along the axis; anything else raises TypeError.                   *)
(***************************************************************************)
IsRebinCall == call.op = "rebinned"

StrictlyIncreasing(e) == \A k \in 1..(Len(e) - 1) : e[k] < e[k + 1]

C5_RebinnedDispatch ==
    IsRebinCall =>
        LET bins == call.bins
            out == call.out
        IN
        IF call.axis >= hist.dim
        THEN out.raised = "ValueError" /\ "hist" \notin DOMAIN out
        ELSE
        /\ bins.kind = "int" =>
              /\ out.raised = "none"
              /\ out.via = "Rebin"
              /\ \A a \in 1..hist.dim :
                    /\ out.ngroup[a] = (IF a = call.axis + 1 THEN bins.n ELSE 1)
                    /\ out.hist.nbins[a]
                         = (IF a = call.axis + 1 THEN hist.nbins[a] \div bins.n
                            ELSE hist.nbins[a])
        /\ bins.kind = "tuple" =>
              IF Len(bins.t) # hist.dim
              THEN out.raised = "ValueError" /\ "hist" \notin DOMAIN out
              ELSE /\ out.raised = "none"
                   /\ out.via = "Rebin"
                   /\ out.ngroup = bins.t
                   /\ \A a \in 1..hist.dim :
                         out.hist.nbins[a] = hist.nbins[a] \div bins.t[a]
        /\ bins.kind = "iter" =>
              IF StrictlyIncreasing(bins.edges)
              THEN /\ out.raised = "none"
                   /\ out.via = "edges"
                   /\ \A a \in 1..hist.dim :
                         out.hist.edges[a]
                            = (IF a = call.axis + 1 THEN bins.edges
                               ELSE hist.edges[a])
              ELSE out.raised = "ValueError"
        /\ bins.kind = "other" =>
              out.raised = "TypeError" /\ "hist" \notin DOMAIN out

C5_Witness ==
    /\ IsRebinCall
    /\ hist.dim = 2
    /\ hist.nbins = <<2, 2, 1>>
    /\ call.axis = 1
    /\ call.bins = [kind |-> "int", n |-> 2]
    /\ call.out.raised = "none"
    /\ call.out.hist.nbins = <<2, 1, 1>>
    /\ call.out.hist.content[5] = 32 + 512

(***************************************************************************)
(* C7.  Indexing never wraps or silently accepts an out-of-range index:    *)
(* h[i] raises IndexError for an int i outside 0..GetSize()-1, h[tuple]    *)
(* raises IndexError when a component is outside 0..nbins(axis)+1, and     *)
(* otherwise the BinProxy addresses the bin with the given coordinates.    *)
(* Stated for int indices, for tuples with one component per axis and for  *)
(* (ix, iy) on a 1D histogram.                                             *)
(***************************************************************************)
IsGetItemCall == call.op = "getitem"

Padded(t) == [a \in 1..3 |-> IF a <= Len(t) THEN t[a] ELSE 0]

\* a tuple with one component per axis, or (ix, iy) on a 1D histogram
TupleCovered(h, t) == Len(t) = h.dim \/ (h.dim = 1 /\ Len(t) = 2)

C7_IndexChecked ==
    IsGetItemCall =>
        /\ call.index.kind = "int" =>
              IF call.index.i \in 0..(GetSize(hist) - 1)
              THEN /\ call.out.raised = "none"
                   /\ call.out.proxy.idx = call.index.i
                   /\ call.out.proxy.xyz = xyz(hist, call.index.i)
              ELSE call.out.raised = "IndexError"
        /\ (call.index.kind = "tuple" /\ TupleCovered(hist, call.index.t)) =>
              IF \A a \in 1..Len(call.index.t) :
                     call.index.t[a] \in 0..(hist.nbins[a] + 1)
              THEN /\ call.out.raised = "none"
                   /\ call.out.proxy.xyz = Padded(call.index.t)
              ELSE call.out.raised = "IndexError"

(***************************************************************************)
(* C8.  After h[index] = value with an int or tuple index, h[index] reads  *)
(* the assigned value, and the assigned error when value is a BinProxy or  *)
(* a (value, error) tuple; a plain value leaves every error as it was; and *)
(* no bin other than the one h[index] addresses has changed its content or *)
(* error.                                                                  *)
(***************************************************************************)
C8_Case ==
    /\ IsGetItemCall
    /\ call.prev.op = "setitem"
    /\ call.prev.raised = "none"

C8_SetThenGet ==
    C8_Case =>
        LET value == call.prev.value
            before == call.prev.before
        IN  /\ call.index = call.prev.index
            /\ call.out.raised = "none"
            /\ value.kind = "plain" =>
                  /\ call.out.proxy.value = value.v
                  /\ hist.sumw2 = before.sumw2
            /\ value.kind = "tuple" =>
                  /\ call.out.proxy.value = value.t[1]
                  /\ call.out.proxy.error = value.t[2]
            /\ value.kind = "proxy" =>
                  /\ call.out.proxy.value = before.content[value.idx]
                  /\ call.out.proxy.error = Sqrt(before.sumw2[value.idx])
            /\ \A j \in 0..(GetSize(hist) - 1) :
                  j # call.out.proxy.idx =>
                      /\ hist.content[j] = before.content[j]
                      /\ hist.sumw2[j] = before.sumw2[j]

C8_Witness ==
    /\ C8_Case
    /\ hist.dim = 2
    /\ call.index = TupleIndex(<<1, 2>>)
    /\ call.prev.value = [kind |-> "tuple", t |-> <<2, 1>>]
    /\ call.prev.before.content[call.out.proxy.idx] # 2
    /\ call.out.proxy.value = 2
    /\ call.out.proxy.error = 1

(***************************************************************************)
(* C9.  h[slice] = value, with value a list as long as the slice, sets the *)
(* content and the error of the k-th bin of the slice from the k-th        *)
(* (value, error) tuple or BinProxy, and the content alone from the k-th   *)
(* plain value.  A list of BinProxies is covered when none of its bins is  *)
(* a bin of the slice.                                                     *)
(***************************************************************************)
IsSetSliceCall == call.op = "setslice"

SliceBins(h, index) ==
    LET ind == SliceIndices(index.start, index.stop, index.step, GetSize(h))
    IN  Range(ind[1], ind[2], ind[3])

C9_Case ==
    /\ IsSetSliceCall
    /\ call.index.step # Some(0)
    /\ Len(SliceBins(call.before, call.index)) = Len(call.value)
    /\ \A k \in 1..Len(call.value) :
          call.value[k].kind = "proxy"
              => call.value[k].idx \notin Elems(SliceBins(call.before, call.index))

C9_SliceAssign ==
    C9_Case =>
        LET indices == SliceBins(call.before, call.index)
            before == call.before
        IN  /\ call.raised = "none"
            /\ \A k \in 1..Len(indices) :
                  LET v == call.value[k] IN
                  /\ v.kind = "plain" =>
                        /\ hist.content[indices[k]] = v.v
                        /\ hist.sumw2[indices[k]] = before.sumw2[indices[k]]
                  /\ v.kind = "tuple" =>
                        /\ hist.content[indices[k]] = v.t[1]
                        /\ Sqrt(hist.sumw2[indices[k]]) = v.t[2]
                  /\ v.kind = "proxy" =>
                        /\ hist.content[indices[k]] = before.content[v.idx]
                        /\ hist.sumw2[indices[k]] = before.sumw2[v.idx]

(***************************************************************************)
(* C10.  h[slice] = value with len(value) different from the number of     *)
(* global bin indices the slice selects raises RuntimeError and leaves     *)
(* every bin content and error as it was.                                  *)
(***************************************************************************)
C10_Case ==
    /\ IsSetSliceCall
    /\ call.index.step # Some(0)
    /\ Len(SliceBins(call.before, call.index)) # Len(call.value)

C10_LengthMismatchRaises ==
    C10_Case =>
        /\ call.raised = "RuntimeError"
        /\ hist = call.before

C10_Witness ==
    /\ C10_Case
    /\ call.raised = "RuntimeError"
    /\ Len(call.value) = 2
    /\ Len(SliceBins(call.before, call.index)) = 3
    /\ call.index.step = Some(0 - 1)
    /\ hist.content[1] = 2

(***************************************************************************)
(* C6.  With strict=True and probabilities in [0, 1], quantiles returns a  *)
(* strictly increasing list of real bin edges of the histogram that holds, *)
(* for each requested probability q, the edge at the first position k of   *)
(* the integral array with integral[k] >= q.                               *)
(***************************************************************************)
IsQuantilesCall == call.op = "quantiles"

RealEdges(h) == Elems(h.edges[1])

\* the first position of the integral array at or above q, if there is one
FirstAtOrAbove(h, q) ==
    {k \in 0..nbins(h, 0) :
        /\ ~IntegralBelow(h, k, q)
        /\ \A j \in 0..(k - 1) : IntegralBelow(h, j, q)}

C6_Holds(h, qs, out) ==
    /\ out.raised = "none"
    /\ \A k \in 1..(Len(out.output) - 1) : out.output[k] < out.output[k + 1]
    /\ Elems(out.output) \subseteq RealEdges(h)
    /\ \A i \in 1..Len(qs) :
          \A k \in FirstAtOrAbove(h, qs[i]) :
              h.edges[1][k + 1] \in Elems(out.output)

C6_StrictQuantiles ==
    IsQuantilesCall => C6_Holds(hist, call.qs, call.out)

(***************************************************************************)
(* C11.  BinProxy.overflow is true exactly when the bin's index along some *)
(* axis of the histogram is 0 or nbins+1; bins(overflow=False) yields, in  *)
(* ascending global-index order, exactly the other bins, of which there    *)
(* are the product of the nbins; bins(overflow=True) and iteration yield   *)
(* all len(h) == GetSize() bins.                                           *)
(***************************************************************************)
\* the cells of the histogram by their coordinates, missing axes at 0
Cells(h) ==
    {c \in [1..3 -> 0..(MaxBins + 1)] :
        \A a \in 1..3 : IF a <= h.dim THEN c[a] <= h.nbins[a] + 1 ELSE c[a] = 0}

OnTheRim(h, c) == \E a \in 1..h.dim : c[a] = 0 \/ c[a] = h.nbins[a] + 1

Ascending(out) == \A k \in 1..(Len(out) - 1) : out[k].idx < out[k + 1].idx

RealBinCount(h) ==
    IF h.dim = 1 THEN h.nbins[1]
    ELSE IF h.dim = 2 THEN h.nbins[1] * h.nbins[2]
    ELSE h.nbins[1] * h.nbins[2] * h.nbins[3]

YieldsAll(h, out) ==
    /\ Ascending(out)
    /\ Len(out) = GetSize(h)
    /\ {out[k].xyz : k \in 1..Len(out)} = Cells(h)
    /\ \A k \in 1..Len(out) : out[k].xyz = xyz(h, out[k].idx)

C11_OverflowAndBins ==
    /\ call.op = "overflow" =>
          (Truthy(call.out) <=> OnTheRim(hist, xyz(hist, call.idx)))
    /\ (call.op = "bins" /\ ~call.overflow) =>
          /\ Ascending(call.out)
          /\ Len(call.out) = RealBinCount(hist)
          /\ {call.out[k].xyz : k \in 1..Len(call.out)}
                = {c \in Cells(hist) : ~OnTheRim(hist, c)}
          /\ \A k \in 1..Len(call.out) :
                call.out[k].xyz = xyz(hist, call.out[k].idx)
    /\ (call.op = "bins" /\ call.overflow) => YieldsAll(hist, call.out)
    /\ call.op = "iter" => YieldsAll(hist, call.out)
    /\ call.op = "len" =>
          /\ call.out = GetSize(hist)
          /\ call.out = Cardinality(Cells(hist))

C11_Witness ==
    /\ call.op = "bins"
    /\ ~call.overflow
    /\ hist.dim = 2
    /\ hist.nbins = <<2, 2, 1>>
    /\ Len(call.out) = 4
    /\ call.out[1].idx = 5
    /\ call.out[4].idx = 10

(***************************************************************************)
(* C12.  For coordinates in range, get_sum_w2 reads and set_sum_w2 writes  *)
(* the cell at the bin's global index (y and z taken as 0 on the axes the  *)
(* histogram lacks); distinct cells have distinct indices; set_sum_w2      *)
(* followed by get_sum_w2 at the same coordinates returns the value set    *)
(* and no other sum of squared weights (and no content) has changed; both  *)
(* raise RuntimeError on a histogram that stores no squared weights.       *)
(***************************************************************************)
IsGetSumW2Call == call.op = "get_sum_w2"

IsSetSumW2Call == call.op = "set_sum_w2"

\* the coordinates with y and z forced to 0 on the missing axes
Forced(h, c) == [a \in 1..3 |-> IF a <= h.dim THEN c[a] ELSE 0]

\* the global index of the bin with coordinates c
GlobalIndex(h, c) ==
    CHOOSE i \in 0..(GetSize(h) - 1) : xyz(h, i) = Forced(h, c)

CoordsInRange(h, c) == \A a \in 1..3 : 0 <= c[a] /\ c[a] < h.nbins[a] + 2

C12_SumW2Cells ==
    /\ (IsGetSumW2Call /\ GetSumw2N(hist) = 0) =>
          call.out.raised = "RuntimeError"
    /\ (IsSetSumW2Call /\ GetSumw2N(call.before) = 0) =>
          call.raised = "RuntimeError" /\ hist = call.before
    /\ (IsGetSumW2Call /\ GetSumw2N(hist) # 0 /\ CoordsInRange(hist, call.xyz)) =>
          /\ call.out.raised = "none"
          /\ call.out.value = hist.sumw2[GlobalIndex(hist, call.xyz)]
          /\ SumW2Index(hist, call.xyz[1], call.xyz[2], call.xyz[3])
                = GlobalIndex(hist, call.xyz)
          /\ \A c, d \in Cells(hist) :
                c # d => SumW2Index(hist, c[1], c[2], c[3])
                             # SumW2Index(hist, d[1], d[2], d[3])
    /\ (IsSetSumW2Call /\ GetSumw2N(call.before) # 0
            /\ CoordsInRange(call.before, call.xyz)) =>
          /\ call.raised = "none"
          /\ hist.content = call.before.content
          /\ hist.sumw2[GlobalIndex(hist, call.xyz)] = call.w
          /\ \A j \in 0..(GetSize(hist) - 1) :
                j # GlobalIndex(hist, call.xyz)
                    => hist.sumw2[j] = call.before.sumw2[j]
    /\ (IsGetSumW2Call /\ call.prev.op = "set_sum_w2"
            /\ call.prev.raised = "none") =>
          /\ call.out.raised = "none"
          /\ call.out.value = call.prev.w

C12_Witness ==
    /\ IsGetSumW2Call
    /\ call.prev.op = "set_sum_w2"
    /\ call.prev.raised = "none"
    /\ call.out.raised = "none"
    /\ hist.dim = 2
    /\ hist.nbins = <<1, 2, 1>>
    /\ call.xyz = <<1, 2, 0>>
    /\ call.prev.w = 2
    /\ call.prev.before.sumw2[7] # 2
    /\ hist.sumw2[7] = 2
    /\ call.out.value = 2

(***************************************************************************)
(* C13.  h += other and h -= other take a fill point only in the shape of  *)
(* the histogram: a number on a 1D histogram (2D and 3D raise ValueError   *)
(* 'A multidimensional histogram must be filled with a tuple'), a list or  *)
(* tuple of dim elements or of dim + 1 with the weight last (any other     *)
(* length raises ValueError); such a point adds, or subtracts, its weight  *)
(* (1 without one) in the bin the point falls in.  Any other operand is    *)
(* added or subtracted bin by bin.  When ValueError is raised no bin has   *)
(* changed.                                                                *)
(***************************************************************************)
IsArithCall == call.op \in {"iadd", "isub"}

Sign == IF call.op = "iadd" THEN 1 ELSE 0 - 1

\* the histogram h with weight w added to the content of the bin of point t
WithWeightAt(h, t, w) ==
    LET c == [a \in 1..3 |-> IF a <= h.dim THEN AxisFindBin(h, a - 1, t[a])
                             ELSE 0]
    IN  [i \in DOMAIN h.content |->
            h.content[i] + (IF xyz(h, i) = c THEN w ELSE 0)]

C13_FillPointShape ==
    IsArithCall =>
        LET other == call.other
            before == call.before
        IN  /\ call.raised = "ValueError" => hist = before
            /\ (other.kind = "number" /\ before.dim # 1) =>
                  /\ call.raised = "ValueError"
                  /\ call.msg
                       = "A multidimensional histogram must be filled with a tuple"
            /\ (other.kind = "number" /\ before.dim = 1) =>
                  /\ call.raised = "none"
                  /\ hist.content = WithWeightAt(before, <<other.v>>, Sign)
            /\ (other.kind \in {"list", "tuple"}
                    /\ Len(other.t) \notin {before.dim, before.dim + 1}) =>
                  call.raised = "ValueError"
            /\ (other.kind \in {"list", "tuple"}
                    /\ Len(other.t) = before.dim) =>
                  /\ call.raised = "none"
                  /\ hist.content = WithWeightAt(before, other.t, Sign)
            /\ (other.kind \in {"list", "tuple"}
                    /\ Len(other.t) = before.dim + 1) =>
                  /\ call.raised = "none"
                  /\ hist.content
                       = WithWeightAt(before, other.t,
                                      Sign * other.t[before.dim + 1])
            /\ other.kind = "hist" =>
                  /\ call.raised = "none"
                  /\ \A i \in DOMAIN hist.content :
                        hist.content[i]
                          = before.content[i] + Sign * other.h.content[i]

(***************************************************************************)
(* C14.  rebinned with an iterable of new bin edges conserves the total:   *)
(* the contents, and the squared weights, of all bins of the returned      *)
(* histogram, underflow and overflow included, sum to those of all bins of *)
(* the original; each original bin's content is added to the new bin that  *)
(* holds the original bin's centre; the entries are the same.              *)
(***************************************************************************)
IsEdgesRebin ==
    /\ IsRebinCall
    /\ call.bins.kind = "iter"
    /\ call.out.raised = "none"

Total(f) == SumSet(f, DOMAIN f)

\* the bin of new that holds the centre of bin i of old
BinOfCentre(new, old, i) ==
    LET c == xyz(old, i)
    IN  FindBin(new, GetBinCenter(old, 0, c[1]), GetBinCenter(old, 1, c[2]),
                GetBinCenter(old, 2, c[3]))

\* the sum of f over the bins of old, from the set S, whose centre lies in
\* bin j of new
Gathered(new, old, f, S, j) ==
    LET from == {i \in S : BinOfCentre(new, old, i) = j}
    IN  SumSet([i \in from |-> f[i]], from)

C14_EdgesConserveTotal ==
    IsEdgesRebin =>
        LET new == call.out.hist
            all == 0..(GetSize(hist) - 1)
        IN  /\ Total(new.content) = Total(hist.content)
            /\ Total(new.sumw2) = Total(hist.sumw2)
            /\ new.entries = hist.entries
            /\ \A j \in 0..(GetSize(new) - 1) :
                  /\ new.content[j] = Gathered(new, hist, hist.content, all, j)
                  /\ new.sumw2[j] = Gathered(new, hist, hist.sumw2, all, j)
====
